---- MODULE Spec2Model ----
(***************************************************************************)
(* Payment reconciliation of the FastDeal backend: the Payment and Order   *)
(* collections, the payment routes (initiation, status poll, webhooks) and *)
(* the Payment model's methods.  Every route handler is a process that     *)
(* advances one database or gateway call at a time, so that handlers for   *)
(* the same Payment interleave as they do under Node's event loop.         *)
(***************************************************************************)
EXTENDS Integers, Sequences, FiniteSets, TLC

\* ------------------------------------------------------------------ bounds
MaxPayments == 2      \* Payment documents the collection may hold
MaxTime     == 1      \* clock readings 0..MaxTime
MaxReq      == 2      \* route handlers in flight at the same time
MaxAttempts == 1      \* stored attempts beyond which no FAILED webhook is sent
MaxRequests == 3      \* requests the run serves
MaxItems    == 2      \* items of one order request
MaxImages   == 4      \* images of a Product

\* --------------------------------------------------------------- constants
\* expiresAt default: Date.now() + 30 * 60 * 1000 (milliseconds)
ExpiryDelay == 30 * 60 * 1000

Users    == {"buyer", "other"}
OrderIds == {"o1"}
OrderBuyer == [o \in OrderIds |-> "buyer"]

\* paymentSchema enums
Currencies      == {"XOF", "USD", "EUR"}
Methods         == {"orange_money", "mtn_money", "paypal", "stripe", "bank_transfer"}
PaymentStatuses == {"pending", "processing", "completed", "failed", "cancelled", "refunded"}
TerminalStatuses == {"completed", "failed", "cancelled", "refunded"}

\* orderSchema enums
OrderStatuses == {"pending", "confirmed", "processing", "shipped", "delivered",
                  "cancelled", "refunded", "disputed"}
OrderPaymentStatuses == {"pending", "completed", "failed", "refunded"}

\* body('status').isIn([...]) of the admin route
AdminStatuses == {"pending", "confirmed", "shipped", "delivered", "cancelled"}

\* request inputs
AdminInputs      == {"confirmed", "shipped"}
Amounts          == {-1, 0}
CurrencyInputs   == {"XOF", "USD"}
StripeCurrencies == {"USD", "EUR"}
RandomSuffixes   == {"a"}
GatewayTxId      == "abc123"
\* status strings a gateway's status call may answer with
GatewayStatuses  == {"SUCCESSFUL", "succeeded", "completed", "PENDING", "FAILED"}
\* status strings the Orange Money webhook may carry
WebhookStatuses  == {"SUCCESS", "FAILED", "PENDING"}
StripeEvents     == {"payment_intent.succeeded", "payment_intent.payment_failed",
                     "charge.refunded"}

NoTime   == -1
NoId     == <<-1, "">>
BogusRef == <<-2, "">>
NoIntent == 0

VARIABLES
  served,     \* requests accepted so far
  now,        \* the clock (Date.now())
  orders,     \* Order collection: order id -> stored document
  payments,   \* Payment collection: sequence of stored documents, in insertion order
  intents,    \* payment intents the card gateway has created so far
  reqs,       \* route handlers: slot -> position and local documents
  sent,       \* status code of the response the last step sent, 0 when it sent none
  last,       \* history: the request the last step answered (route, Payment, observation)
  applied,    \* history: per Payment, the first terminal observation whose handler finished
  orderDocs,  \* Order documents saved through the Order model, in insertion order
  oreqs,      \* order handlers: slot -> position and local document
  asked,      \* items of the order request the last step accepted, <<>> otherwise
  images,     \* the images of the Product document in memory
  savedImages \* the images of the Product as last saved

vars == <<served, now, orders, payments, intents, reqs, sent, last, applied,
          orderDocs, oreqs, asked, images, savedImages>>

\* The payment routes touch neither the Order model's documents nor Products.
ShopFrame == UNCHANGED <<orderDocs, oreqs, asked, images, savedImages>>

Slots == 1..MaxReq
Pids  == 1..Len(payments)

\* ------------------------------------------------------------ Payment model
\* A document as `new Payment({...})` builds it: schema defaults applied.
DefaultStatus == "pending"

DefaultExpiresAt(t) == t + ExpiryDelay

NewPayment(o, u, a, c, m, intent, t) ==
  [ paymentId       |-> NoId,
    order           |-> o,
    user            |-> u,
    amount          |-> a,
    currency        |-> c,
    method          |-> m,
    status          |-> DefaultStatus,
    transactionId   |-> "",
    paymentIntentId |-> intent,
    attempts        |-> <<>>,
    completedAt     |-> NoTime,
    failedAt        |-> NoTime,
    createdAt       |-> NoTime,
    expiresAt       |-> DefaultExpiresAt(t) ]

NoDoc ==
  [NewPayment("none", "none", 0, "XOF", "none", NoIntent, 0) EXCEPT !.expiresAt = NoTime]

\* Schema validators run by save(): min, enum.
ValidPayment(d) ==
  /\ d.amount >= 0
  /\ d.currency \in Currencies
  /\ d.method \in Methods
  /\ d.status \in PaymentStatuses

\* pre('save'): a new document without paymentId gets PAY_<Date.now()>_<random>.
GeneratePaymentId(d, t, rnd) ==
  IF d.paymentId = NoId THEN [d EXCEPT !.paymentId = <<t, rnd>>] ELSE d

\* A collection without the unique index accepts every insert.
NoUniqueIndex(d) == FALSE

\* unique: true on paymentId: the insert is refused when the id is already stored.
DuplicateKey(d) == \E i \in Pids : payments[i].paymentId = d.paymentId

\* Payment.findOne({ paymentId }): index of the first match, 0 when none.
FindByPaymentId(ref) ==
  IF \E i \in Pids : payments[i].paymentId = ref
    THEN CHOOSE i \in Pids : /\ payments[i].paymentId = ref
                             /\ \A j \in Pids : payments[j].paymentId = ref => i <= j
    ELSE 0

\* Payment.findOne({ 'stripeDetails.paymentIntentId': id })
FindByIntent(id) ==
  IF \E i \in Pids : payments[i].paymentIntentId = id
    THEN CHOOSE i \in Pids : /\ payments[i].paymentIntentId = id
                             /\ \A j \in Pids : payments[j].paymentIntentId = id => i <= j
    ELSE 0

\* The document a handler holds after a find: the stored one, kept to the paths
\* the handler reads or assigns afterwards (the others play no part in it).
Loaded(stored, paths) ==
  [f \in DOMAIN stored |-> IF f \in paths THEN stored[f] ELSE NoDoc[f]]

\* Assignment to a path of a loaded document: the path is marked modified only
\* when the value changes.
SetPath(r, f, v) ==
  IF r.doc[f] = v THEN r
  ELSE [r EXCEPT !.doc = [r.doc EXCEPT ![f] = v], !.mod = r.mod \union {f}]

\* A save that writes the whole attempts array of the loaded document back.
SavedPaymentOverwrite(stored, r) ==
  [f \in DOMAIN stored |->
     IF f = "attempts" THEN r.doc.attempts \o r.push
     ELSE IF f \in r.mod THEN r.doc[f]
     ELSE stored[f]]

\* document.save() of a loaded document: $set of the modified paths, $push of
\* the pushed attempts; every other stored path is left as it is.
SavedPayment(stored, r) ==
  [f \in DOMAIN stored |->
     IF f = "attempts" THEN stored.attempts \o r.push
     ELSE IF f \in r.mod THEN r.doc[f]
     ELSE stored[f]]

\* paymentSchema.methods.markCompleted (the assignments; save() is the next step)
MarkCompleted(r, t) ==
  SetPath(SetPath(r, "status", "completed"), "completedAt", t)

\* A markFailed that logs no attempt.
MarkFailedNoAttempt(r, t) ==
  SetPath(SetPath(r, "status", "failed"), "failedAt", t)

\* paymentSchema.methods.markFailed (the assignments; save() is the next step)
MarkFailed(r, t) ==
  LET s == SetPath(SetPath(r, "status", "failed"), "failedAt", t)
  IN  [s EXCEPT !.push = Append(s.push, "failed")]

\* paymentSchema.methods.addAttempt (the push; save() is the next step)
AddAttempt(r, st) == [r EXCEPT !.push = Append(r.push, st)]

\* -------------------------------------------------------------- Order model
NoOrderDoc == [status |-> "pending", paymentStatus |-> "pending"]

\* Schema validators run by order.save(): enum on status and paymentStatus.
ValidOrder(d) ==
  /\ d.status \in OrderStatuses
  /\ d.paymentStatus \in OrderPaymentStatuses

\* An order update that writes a paymentStatus the Order schema accepts.
OrderLinkageCompleted(d) == [d EXCEPT !.paymentStatus = "completed", !.status = "confirmed"]

\* The order update of the payment routes: paymentStatus = 'paid', status = 'confirmed'.
OrderLinkage(d) == [d EXCEPT !.paymentStatus = "paid", !.status = "confirmed"]

\* Paths of the loaded order the assignments above have changed.
OrderModified(read, d) == {f \in DOMAIN d : d[f] # read[f]}

\* order.save(): $set of the modified paths.
SavedOrder(stored, d, omod) ==
  [f \in DOMAIN stored |-> IF f \in omod THEN d[f] ELSE stored[f]]

\* ---------------------------------------------------------------- handlers
Idle ==
  [ kind |-> "idle", pc |-> "done", user |-> "none", pid |-> 0,
    doc |-> NoDoc, mod |-> {}, push |-> <<>>,
    odoc |-> NoOrderDoc, omod |-> {}, obs |-> "none", was |-> "none",
    after |-> "none", sig |-> TRUE ]

\* What the history keeps of an answered request.
Answered(rec) ==
  [kind |-> rec.kind, user |-> rec.user, pid |-> rec.pid, obs |-> rec.obs,
   after |-> rec.after, sig |-> rec.sig]

Free(r) == reqs[r].pc = "done"

\* A handler that goes on to its next call: no response is sent and no
\* observation is finished.
Running == sent' = 0 /\ last' = Answered(Idle) /\ UNCHANGED applied

\* A new request is served in the lowest free slot.
Accepts(r) ==
  /\ Free(r)
  /\ \A s \in Slots : s < r => ~Free(s)
  /\ served < MaxRequests
  /\ served' = served + 1

\* Which terminal observation a finishing handler carried for its Payment.
ObservationTag(rec) ==
  CASE rec.kind = "poll" /\ rec.obs \in {"SUCCESSFUL", "succeeded", "completed"}
         -> "poll_succeeded"
    [] rec.kind = "om_webhook" /\ rec.obs = "FAILED" -> "webhook_failed"
    [] rec.kind = "poll" /\ rec.obs = "FAILED" -> "other"
    [] rec.kind = "om_webhook" /\ rec.obs = "SUCCESS" -> "other"
    [] rec.kind = "stripe_webhook"
         /\ rec.obs \in {"payment_intent.succeeded", "payment_intent.payment_failed"}
         -> "other"
    [] OTHER -> "none"

\* The history keeps the first observation of a Payment, and only a mark once
\* an observation other than poll-success / webhook-failure took part.
Observe(first, tag) ==
  IF tag = "other" THEN "other"
  ELSE IF first = "none" THEN tag
  ELSE first

Observed(rec) ==
  IF rec.pid = 0 \/ ObservationTag(rec) = "none" THEN applied
  ELSE [applied EXCEPT ![rec.pid] = Observe(@, ObservationTag(rec))]

\* The handler in slot r ends with the given response.
Finish(r, rec, code) ==
  /\ reqs' = [reqs EXCEPT ![r] = Idle]
  /\ sent' = code
  /\ last' = Answered(rec)
  /\ applied' = Observed(rec)

\* ---------------------------------------------------------- Order documents
\* What reading a path the schema does not declare gives.
Undefined == "undefined"

\* doc.path on a Mongoose document.
Get(doc, path) == IF path \in DOMAIN doc THEN doc[path] ELSE Undefined

\* orderNumber before the pre('save') hook has set it.
NoSequence == 0

\* new Order({...}): status defaults to 'pending', the timeline is empty.  The
\* field seller stands for the required paths seller, product, price and
\* totalAmount; it is Undefined when the constructor's argument lacks them.
NewOrder(u, s) ==
  [orderNumber |-> NoSequence, buyer |-> u, seller |-> s,
   status |-> "pending", timeline |-> <<>>]

\* Schema validators run by save(): required paths and the status enum.
ValidOrderDoc(d) ==
  /\ d.seller # Undefined
  /\ d.status \in OrderStatuses

\* The day's last order: findOne({orderNumber: /^FD<yymmdd>/}).sort({orderNumber: -1}).
\* Order numbers are kept as their sequence part; all orders are of one day.
LastOrder(docs) ==
  IF docs = <<>> THEN NoSequence
  ELSE CHOOSE n \in {docs[i].orderNumber : i \in DOMAIN docs} :
         \A i \in DOMAIN docs : docs[i].orderNumber <= n

\* The sequence the hook assigns: 1, or the last order's sequence plus one.
NextSequence(docs) == IF LastOrder(docs) = NoSequence THEN 1 ELSE LastOrder(docs) + 1

\* The unique index on orderNumber.
DuplicateOrderNumber(docs, d) == \E i \in DOMAIN docs : docs[i].orderNumber = d.orderNumber

\* The timeline part of the pre('save') hook on an existing document:
\* isModified('status') pushes an entry with the document's status.
TimelineHook(rec) ==
  IF rec.modified THEN [rec EXCEPT !.pushed = Append(@, rec.status)] ELSE rec

\* updateStatus(newStatus) up to its this.save(): the assignment and the push.
UpdateStatus(rec, loaded, st) ==
  [rec EXCEPT !.status = st, !.modified = (st # loaded.status), !.pushed = Append(@, st)]

\* order.status = st
AssignStatus(rec, loaded, st) ==
  [rec EXCEPT !.status = st, !.modified = (st # loaded.status)]

\* save() of an existing document: $set of status when modified, $push of the
\* new timeline entries.
SavedOrderDoc(d, rec) ==
  [d EXCEPT !.status   = IF rec.modified THEN rec.status ELSE @,
            !.timeline = @ \o rec.pushed]

\* Products as the Product schema stores them: no path named status.
Products == {"p1", "p2", "p4", "p5"}
Catalog ==
  [p \in Products |->
     CASE p = "p1" -> [availability |-> "in-stock", seller |-> "other", price |-> 20000]
       [] p = "p2" -> [availability |-> "in-stock", seller |-> "other", price |-> 30000]
       [] p = "p4" -> [availability |-> "out-of-stock", seller |-> "other", price |-> 20000]
       [] p = "p5" -> [availability |-> "in-stock", seller |-> "buyer", price |-> 20000]]

\* request inputs of the order routes
ProductInputs == Products \cup {"p9"}
Quantities    == {1, 2}
ItemInputs    == [product : ProductInputs, quantity : Quantities]
ItemLists     == UNION {[1..n -> ItemInputs] : n \in 1..MaxItems}
StatusInputs  == {"confirmed", "shipped"}
OrderCalls    == {"assign", "updateStatus"}

\* The item loop of POST /: the first item that fails a check ends the request
\* with its code; otherwise price * quantity is added to subtotal.
RECURSIVE ProcessItems(_, _, _)
ProcessItems(items, u, acc) ==
  IF items = <<>> THEN acc
  ELSE LET item == Head(items) IN
       IF item.product \notin Products THEN [acc EXCEPT !.code = 404]
       ELSE LET product == Catalog[item.product] IN
            IF Get(product, "status") # "active" THEN [acc EXCEPT !.code = 400]
            ELSE IF product.availability # "in-stock" THEN [acc EXCEPT !.code = 400]
            ELSE IF product.seller = u THEN [acc EXCEPT !.code = 400]
            ELSE ProcessItems(Tail(items), u,
                   [acc EXCEPT !.subtotal = @ + product.price * item.quantity])

\* Free shipping from 50,000 XOF, 5,000 otherwise.
FreeShippingFrom == 50000
ShippingFee      == 5000
ShippingCost(subtotal) == IF subtotal >= FreeShippingFrom THEN 0 ELSE ShippingFee

\* No order request was accepted in the step.
NoRequest == [user |-> "none", items |-> <<>>]

\* An order handler that is not running.
NoOrderReq ==
  [kind |-> "idle", pc |-> "done", id |-> 0, doc |-> NewOrder("none", Undefined),
   status |-> "pending", modified |-> FALSE, pushed |-> <<>>,
   subtotal |-> 0, shippingCost |-> 0, total |-> 0]

\* -------------------------------------------------------- Product documents
ImageLists == UNION {[1..n -> BOOLEAN] : n \in 0..MaxImages}

\* How many images are flagged primary.
RECURSIVE PrimaryCount(_)
PrimaryCount(imgs) ==
  IF imgs = <<>> THEN 0
  ELSE (IF Head(imgs) THEN 1 ELSE 0) + PrimaryCount(Tail(imgs))

\* The forEach of the hook: every flagged image after the first is unflagged.
RECURSIVE Unflag(_, _)
Unflag(imgs, primaryCount) ==
  IF imgs = <<>> THEN <<>>
  ELSE IF Head(imgs)
       THEN <<primaryCount + 1 <= 1>> \o Unflag(Tail(imgs), primaryCount + 1)
       ELSE <<FALSE>> \o Unflag(Tail(imgs), primaryCount)

\* A hook that only fills in a missing primary image.
PrimaryHookFillOnly(imgs) ==
  IF Len(imgs) > 0 /\ PrimaryCount(imgs) = 0 THEN [imgs EXCEPT ![1] = TRUE] ELSE imgs

\* productSchema.pre('save')
PrimaryHook(imgs) ==
  IF Len(imgs) > 0
    THEN IF PrimaryCount(imgs) = 0
           THEN [Unflag(imgs, 0) EXCEPT ![1] = TRUE]
           ELSE Unflag(imgs, 0)
    ELSE imgs

Init ==
  /\ orderDocs = <<>>
  /\ oreqs = [r \in Slots |-> NoOrderReq]
  /\ asked = NoRequest
  /\ images = <<>>
  /\ savedImages = <<>>
  /\ served = 0
  /\ now = 0
  /\ orders = [o \in OrderIds |-> NoOrderDoc]
  /\ payments = <<>>
  /\ intents = 0
  /\ reqs = [r \in Slots |-> Idle]
  /\ sent = 0
  /\ last = Answered(Idle)
  /\ applied = <<>>

\* The clock advances.
Tick ==
  /\ now < MaxTime
  /\ now' = now + 1
  /\ sent' = 0
  /\ last' = Answered(Idle)
  /\ UNCHANGED <<served, orders, payments, intents, reqs, applied>>
  /\ ShopFrame

\* ------------------------------------------------------ payment initiation
\* Handlers that may still insert a Payment.
Creating == {s \in Slots : reqs[s].pc \in {"intent", "save_new"}}

MayCreate == Len(payments) + Cardinality(Creating) < MaxPayments

OrderInputs == OrderIds \union {"o9"}

\* Order.findById(orderId) and the ownership test of the initiation routes.
OrderFound(o, u) == o \in OrderIds /\ OrderBuyer[o] = u

\* POST /orange-money/initiate and POST /mtn-money/initiate, up to payment.save().
InitiateMobile(r, kind, u, a, o) ==
  /\ Accepts(r)
  /\ MayCreate
  /\ IF ~OrderFound(o, u)
       THEN Finish(r, [Idle EXCEPT !.kind = kind], 404)
       ELSE /\ reqs' = [reqs EXCEPT ![r] =
                 [Idle EXCEPT !.kind = kind, !.pc = "save_new", !.user = u,
                    !.doc = NewPayment(o, u, a, "XOF",
                              IF kind = "orange_init" THEN "orange_money" ELSE "mtn_money",
                              NoIntent, now)]]
            /\ Running
  /\ UNCHANGED <<now, orders, payments, intents>>
  /\ ShopFrame

\* POST /stripe/create-intent, up to stripe.paymentIntents.create().
InitiateStripe(r, u, a, c, o) ==
  /\ Accepts(r)
  /\ MayCreate
  /\ intents < MaxPayments
  /\ IF c \notin StripeCurrencies
       THEN Finish(r, [Idle EXCEPT !.kind = "stripe_init"], 400)
       ELSE IF ~OrderFound(o, u)
       THEN Finish(r, [Idle EXCEPT !.kind = "stripe_init"], 404)
       ELSE /\ reqs' = [reqs EXCEPT ![r] =
                 [Idle EXCEPT !.kind = "stripe_init", !.pc = "intent", !.user = u,
                    !.doc = NewPayment(o, u, a, c, "stripe", NoIntent, now)]]
            /\ Running
  /\ UNCHANGED <<now, orders, payments, intents>>
  /\ ShopFrame

\* stripe.paymentIntents.create() answers, then `new Payment({...})`.
CreateIntent(r, ok) ==
  LET rec == reqs[r] IN
  /\ rec.pc = "intent"
  /\ IF ok
       THEN /\ intents' = intents + 1
            /\ reqs' = [reqs EXCEPT ![r] =
                 [rec EXCEPT !.pc = "save_new",
                    !.doc = NewPayment(rec.doc.order, rec.doc.user, rec.doc.amount,
                              rec.doc.currency, "stripe", intents + 1, now)]]
            /\ Running
       ELSE /\ Finish(r, rec, 500)
            /\ UNCHANGED intents
  /\ UNCHANGED <<served, now, orders, payments>>
  /\ ShopFrame

\* payment.save() of a new document: pre('save') id, timestamps, validation, insert.
SaveNew(r, rnd) ==
  LET rec == reqs[r]
      d   == [GeneratePaymentId(rec.doc, now, rnd) EXCEPT !.createdAt = now]
  IN
  /\ rec.pc = "save_new"
  /\ IF ~ValidPayment(d) \/ DuplicateKey(d)
       THEN /\ Finish(r, rec, 500)
            /\ UNCHANGED payments
       ELSE /\ payments' = Append(payments, d)
            /\ applied' = Append(applied, "none")
            /\ IF rec.kind = "stripe_init"
                 THEN /\ reqs' = [reqs EXCEPT ![r] = Idle]
                      /\ sent' = 200
                      /\ last' = Answered([rec EXCEPT !.pid = Len(payments) + 1])
                 ELSE /\ reqs' = [reqs EXCEPT ![r] =
                           [rec EXCEPT !.pc = "gw_init", !.pid = Len(payments) + 1,
                              !.doc = Loaded(d, {"status", "transactionId"})]]
                      /\ sent' = 0
                      /\ last' = Answered(Idle)
  /\ UNCHANGED <<served, now, orders, intents>>
  /\ ShopFrame

\* orangeMoneyAPI.initiatePayment / mtnMoneyAPI.requestPayment answers or throws.
GatewayInitiate(r, ok) ==
  LET rec == reqs[r] IN
  /\ rec.pc = "gw_init"
  /\ IF ok
       THEN /\ reqs' = [reqs EXCEPT ![r] =
                 [SetPath(SetPath(rec, "transactionId", GatewayTxId), "status", "processing")
                    EXCEPT !.pc = "save_doc"]]
            /\ Running
       ELSE Finish(r, rec, 500)
  /\ UNCHANGED <<served, now, orders, payments, intents>>
  /\ ShopFrame

\* Webhooks that go on to the order whatever status they carry.
UpdatesOrderAlways(rec) == rec.kind \in {"om_webhook", "stripe_webhook"}

\* The handlers that go on to the order after the payment's save: the success
\* branches of the two webhooks.
UpdatesOrder(rec) ==
  /\ rec.kind \in {"om_webhook", "stripe_webhook"}
  /\ rec.obs \in {"SUCCESS", "payment_intent.succeeded"}

\* payment.save() of a loaded document, and what the handler does next.
SaveDoc(r) ==
  LET rec == reqs[r] IN
  /\ rec.pc = "save_doc"
  /\ payments' = [payments EXCEPT ![rec.pid] = SavedPayment(@, rec)]
  /\ IF UpdatesOrder(rec)
       THEN /\ reqs' = [reqs EXCEPT ![r] =
                 [rec EXCEPT !.pc = "find_order", !.mod = {}, !.push = <<>>]]
            /\ Running
       ELSE Finish(r, rec, 200)
  /\ UNCHANGED <<served, now, orders, intents>>
  /\ ShopFrame

\* ------------------------------------------------------------- status poll
\* The gateway the status route asks, by payment method; "none" leaves
\* gatewayStatus null.
StatusGateway(d) ==
  IF d.method = "orange_money" /\ d.transactionId # "" THEN "orange"
  ELSE IF d.method = "mtn_money" /\ d.transactionId # "" THEN "mtn"
  ELSE IF d.method = "stripe" /\ d.paymentIntentId # NoIntent THEN "stripe"
  ELSE "none"

\* isCompleted of the status route
IsCompleted(s) == s = "succeeded" \/ s = "SUCCESSFUL" \/ s = "completed"

\* A status route that serves any authenticated user.
AnyUser(i, u) == TRUE

\* payment.user.toString() === req.user.id
IsPayer(i, u) == payments[i].user = u

RefInputs == {payments[i].paymentId : i \in Pids} \union {BogusRef}

\* GET /status/:paymentId, up to the gateway's status call.
PollStart(r, u, ref) ==
  LET i == FindByPaymentId(ref) IN
  /\ Accepts(r)
  /\ IF i = 0
       THEN Finish(r, [Idle EXCEPT !.kind = "poll", !.user = u], 404)
       ELSE IF ~IsPayer(i, u)
       THEN Finish(r, [Idle EXCEPT !.kind = "poll", !.user = u, !.pid = i], 404)
       ELSE IF StatusGateway(payments[i]) = "none"
       THEN Finish(r, [Idle EXCEPT !.kind = "poll", !.user = u, !.pid = i], 200)
       ELSE /\ reqs' = [reqs EXCEPT ![r] =
                 [Idle EXCEPT !.kind = "poll", !.pc = "gw_status", !.user = u, !.pid = i,
                    !.doc = Loaded(payments[i], {"order", "status", "completedAt"}),
                    !.was = payments[i].status,
                    !.after = IF last.kind = "poll" /\ last.pid = i
                                THEN last.obs ELSE "none"]]
            /\ Running
  /\ UNCHANGED <<now, orders, payments, intents>>
  /\ ShopFrame

\* A status route that stamps and saves the Payment on every success answer,
\* without the test of the current status and without the order.
GatewayStatusRestamp(r, ok, s) ==
  LET rec == [reqs[r] EXCEPT !.obs = s] IN
  /\ reqs[r].pc = "gw_status"
  /\ IF ~ok
       THEN Finish(r, reqs[r], 500)
       ELSE IF IsCompleted(s)
       THEN /\ reqs' = [reqs EXCEPT ![r] =
                 [MarkCompleted(rec, now) EXCEPT !.pc = "save_doc"]]
            /\ Running
       ELSE Finish(r, rec, 200)
  /\ UNCHANGED <<served, now, orders, payments, intents>>
  /\ ShopFrame

\* checkPaymentStatus / paymentIntents.retrieve answers with status s or throws;
\* on success the route assigns status and completedAt and goes for the order.
GatewayStatus(r, ok, s) ==
  LET rec == [reqs[r] EXCEPT !.obs = s] IN
  /\ reqs[r].pc = "gw_status"
  /\ IF ~ok
       THEN Finish(r, reqs[r], 500)
       ELSE IF IsCompleted(s) /\ rec.doc.status # "completed"
       THEN /\ reqs' = [reqs EXCEPT ![r] =
                 [MarkCompleted(rec, now) EXCEPT !.pc = "find_order"]]
            /\ Running
       ELSE Finish(r, rec, 200)
  /\ UNCHANGED <<served, now, orders, payments, intents>>
  /\ ShopFrame

\* Order.findById(payment.order), then the assignments to the loaded order.
FindOrder(r) ==
  LET rec  == reqs[r]
      read == orders[rec.doc.order]
  IN
  /\ rec.pc = "find_order"
  /\ reqs' = [reqs EXCEPT ![r] =
       [rec EXCEPT !.pc = "save_order", !.odoc = OrderLinkage(read),
                   !.omod = OrderModified(read, OrderLinkage(read))]]
  /\ sent' = 0
  /\ last' = Answered(Idle)
  /\ UNCHANGED <<served, now, orders, payments, intents, applied>>
  /\ ShopFrame

\* order.save(): validation, then the write; a validation error ends the
\* handler with 500.  The status route saves the payment after the order.
SaveOrder(r) ==
  LET rec == reqs[r] IN
  /\ rec.pc = "save_order"
  /\ IF ~ValidOrder(rec.odoc)
       THEN /\ Finish(r, rec, 500)
            /\ UNCHANGED orders
       ELSE /\ orders' = [orders EXCEPT ![rec.doc.order] = SavedOrder(@, rec.odoc, rec.omod)]
            /\ IF rec.kind = "poll"
                 THEN /\ reqs' = [reqs EXCEPT ![r] = [rec EXCEPT !.pc = "save_doc"]]
                      /\ Running
                 ELSE Finish(r, rec, 200)
  /\ UNCHANGED <<served, now, payments, intents>>
  /\ ShopFrame

\* ---------------------------------------------------------------- webhooks
\* Attempts are bounded: no further failure is delivered to a full log.
MayFail(i) == Len(payments[i].attempts) < MaxAttempts

\* A webhook that takes every status other than SUCCESS for a failure.
ReportsFailureLoose(st) == st # "SUCCESS"

\* The `else if (status === 'FAILED')` test of the Orange Money webhook.
ReportsFailure(st) == st = "FAILED"

\* POST /webhook/orange-money, up to the save() inside markCompleted / markFailed.
WebhookOrange(r, ref, st) ==
  LET i   == FindByPaymentId(ref)
      rec == [Idle EXCEPT !.kind = "om_webhook", !.pc = "save_doc", !.pid = i,
                !.doc = Loaded(payments[i], {"order", "status", "completedAt", "failedAt"}),
                !.was = payments[i].status, !.obs = st]
  IN
  /\ Accepts(r)
  /\ IF i = 0
       THEN Finish(r, [Idle EXCEPT !.kind = "om_webhook", !.obs = st], 404)
       ELSE IF st = "SUCCESS"
       THEN /\ reqs' = [reqs EXCEPT ![r] = MarkCompleted(rec, now)]
            /\ Running
       ELSE IF ReportsFailure(st)
       THEN /\ MayFail(i)
            /\ reqs' = [reqs EXCEPT ![r] = MarkFailed(rec, now)]
            /\ Running
       ELSE Finish(r, rec, 200)
  /\ UNCHANGED <<now, orders, payments, intents>>
  /\ ShopFrame

IntentInputs == 1..(intents + 1)

\* A verification that lets every signature through.
AcceptAnySignature(sigOk) == TRUE

\* stripe.webhooks.constructEvent: returns the event when the signature
\* verifies, throws otherwise.
ConstructEvent(sigOk) == sigOk

\* POST /webhook/stripe, up to the save() inside markCompleted / markFailed.
WebhookStripe(r, sigOk, ev, id) ==
  LET i   == FindByIntent(id)
      rec == [Idle EXCEPT !.kind = "stripe_webhook", !.pc = "save_doc", !.pid = i,
                !.doc = Loaded(payments[i], {"order", "status", "completedAt", "failedAt"}),
                !.was = payments[i].status, !.obs = ev, !.sig = sigOk]
  IN
  /\ Accepts(r)
  /\ IF ~ConstructEvent(sigOk)
       THEN Finish(r, [Idle EXCEPT !.kind = "stripe_webhook", !.obs = ev, !.sig = sigOk], 400)
       ELSE IF i = 0 \/ ev \notin {"payment_intent.succeeded", "payment_intent.payment_failed"}
       THEN Finish(r, [Idle EXCEPT !.kind = "stripe_webhook", !.pid = i, !.obs = ev,
                                   !.sig = sigOk], 200)
       ELSE IF ev = "payment_intent.succeeded"
       THEN /\ reqs' = [reqs EXCEPT ![r] = MarkCompleted(rec, now)]
            /\ Running
       ELSE /\ MayFail(i)
            /\ reqs' = [reqs EXCEPT ![r] = MarkFailed(rec, now)]
            /\ Running
  /\ UNCHANGED <<now, orders, payments, intents>>
  /\ ShopFrame

\* ------------------------------------------------------------------- admin
\* PATCH /orders/:id/status of the admin routes: Order.findByIdAndUpdate.
AdminUpdateOrderStatus(o, st) ==
  /\ st \in AdminStatuses
  /\ orders' = [orders EXCEPT ![o].status = st]
  /\ sent' = 0
  /\ last' = Answered(Idle)
  /\ UNCHANGED <<now, payments, intents, reqs, applied>>
  /\ served < MaxRequests
  /\ served' = served + 1
  /\ ShopFrame

\* ------------------------------------------------------------------ cancel
\* Statuses in which the cancel route refuses.
NotCancellable == {"shipped", "delivered"}

\* PATCH /:orderId/cancel, up to order.save(): Order.findById, the buyer test,
\* the status test, then the assignment of status 'cancelled'.
CancelStart(r, u, o) ==
  /\ Accepts(r)
  /\ IF o \notin OrderIds
       THEN Finish(r, [Idle EXCEPT !.kind = "cancel", !.user = u], 404)
       ELSE IF OrderBuyer[o] # u
       THEN Finish(r, [Idle EXCEPT !.kind = "cancel", !.user = u], 403)
       ELSE IF orders[o].status \in NotCancellable
       THEN Finish(r, [Idle EXCEPT !.kind = "cancel", !.user = u], 400)
       ELSE /\ reqs' = [reqs EXCEPT ![r] =
                 [Idle EXCEPT !.kind = "cancel", !.pc = "save_cancel", !.user = u,
                    !.doc = [NoDoc EXCEPT !.order = o],
                    !.odoc = [orders[o] EXCEPT !.status = "cancelled"],
                    !.omod = OrderModified(orders[o], [orders[o] EXCEPT !.status = "cancelled"])]]
            /\ Running
  /\ UNCHANGED <<now, orders, payments, intents>>
  /\ ShopFrame

\* order.save() of the cancel route.
CancelSave(r) ==
  LET rec == reqs[r] IN
  /\ rec.pc = "save_cancel"
  /\ IF ~ValidOrder(rec.odoc)
       THEN /\ Finish(r, rec, 500)
            /\ UNCHANGED orders
       ELSE /\ orders' = [orders EXCEPT ![rec.doc.order] = SavedOrder(@, rec.odoc, rec.omod)]
            /\ Finish(r, rec, 200)
  /\ UNCHANGED <<served, now, payments, intents>>
  /\ ShopFrame

Next ==
  \/ Tick
  \/ \E r \in Slots, kind \in {"orange_init", "mtn_init"}, u \in Users,
        a \in Amounts, o \in OrderInputs : InitiateMobile(r, kind, u, a, o)
  \/ \E r \in Slots, u \in Users, a \in Amounts, c \in CurrencyInputs, o \in OrderInputs :
        InitiateStripe(r, u, a, c, o)
  \/ \E r \in Slots, ok \in BOOLEAN : CreateIntent(r, ok)
  \/ \E r \in Slots, rnd \in RandomSuffixes : SaveNew(r, rnd)
  \/ \E r \in Slots, ok \in BOOLEAN : GatewayInitiate(r, ok)
  \/ \E r \in Slots : SaveDoc(r)
  \/ \E r \in Slots, u \in Users, ref \in RefInputs : PollStart(r, u, ref)
  \/ \E r \in Slots, ok \in BOOLEAN, s \in GatewayStatuses : GatewayStatus(r, ok, s)
  \/ \E r \in Slots : FindOrder(r)
  \/ \E r \in Slots : SaveOrder(r)
  \/ \E r \in Slots, ref \in RefInputs, st \in WebhookStatuses : WebhookOrange(r, ref, st)
  \/ \E r \in Slots, sigOk \in BOOLEAN, ev \in StripeEvents, id \in IntentInputs :
        WebhookStripe(r, sigOk, ev, id)
  \/ \E o \in OrderIds, st \in AdminInputs : AdminUpdateOrderStatus(o, st)
  \/ \E r \in Slots, u \in Users, o \in OrderInputs : CancelStart(r, u, o)
  \/ \E r \in Slots : CancelSave(r)

Spec == Init /\ [][Next]_vars

\* ------------------------------------------------------------------ ledger
\* The Payment model used directly: documents are created, loaded, changed by
\* the model's methods and saved, and the expiry index removes documents.
LedgerAmounts    == {-1, 0}
LedgerCurrencies == {"XOF", "GBP"}
LedgerMethods    == {"orange_money", "cash"}
LedgerCalls      == {"markCompleted", "markFailed", "addAttempt"}
AttemptStatuses  == {"failed", "processing"}

LedgerFrame == UNCHANGED <<orders, intents, sent, last, applied>>

\* new Payment({...}).save()
LedgerCreate(a, c, m, rnd) ==
  LET d == [GeneratePaymentId(NewPayment("o1", "buyer", a, c, m, NoIntent, now), now, rnd)
              EXCEPT !.createdAt = now]
  IN
  /\ Len(payments) < MaxPayments
  /\ ValidPayment(d)
  /\ ~DuplicateKey(d)
  /\ payments' = Append(payments, d)
  /\ UNCHANGED <<served, now, reqs>>
  /\ LedgerFrame
  /\ ShopFrame

\* Payment.findOne(...) by a caller that goes on to call one of the methods.
LedgerLoad(r, i, call) ==
  /\ Accepts(r)
  /\ payments[i] # NoDoc
  /\ reqs' = [reqs EXCEPT ![r] =
       [Idle EXCEPT !.kind = "ledger", !.pc = "loaded", !.pid = i,
                    !.doc = Loaded(payments[i],
                                   {"status", "completedAt", "failedAt", "attempts"}),
                    !.was = payments[i].status, !.obs = call]]
  /\ UNCHANGED <<now, payments>>
  /\ LedgerFrame
  /\ ShopFrame

\* The method's save(): the update reaches the stored document if it is
\* still there.
LedgerSave(r, rec) ==
  /\ payments' = IF payments[rec.pid] = NoDoc THEN payments
                 ELSE [payments EXCEPT ![rec.pid] = SavedPayment(@, rec)]
  /\ reqs' = [reqs EXCEPT ![r] = Idle]
  /\ UNCHANGED <<served, now>>
  /\ LedgerFrame
  /\ ShopFrame

LedgerMarkCompleted(r) ==
  /\ reqs[r].pc = "loaded" /\ reqs[r].obs = "markCompleted"
  /\ LedgerSave(r, MarkCompleted(reqs[r], now))

LedgerMarkFailed(r) ==
  /\ reqs[r].pc = "loaded" /\ reqs[r].obs = "markFailed"
  /\ LedgerSave(r, MarkFailed(reqs[r], now))

LedgerAddAttempt(r, st) ==
  /\ reqs[r].pc = "loaded" /\ reqs[r].obs = "addAttempt"
  /\ LedgerSave(r, AddAttempt(reqs[r], st))

\* Thirty minutes pass.
Wait ==
  /\ now < ExpiryDelay
  /\ now' = now + ExpiryDelay
  /\ UNCHANGED <<served, payments, reqs>>
  /\ LedgerFrame
  /\ ShopFrame

\* index({ expiresAt: 1 }, { expireAfterSeconds: 0 }): the database removes a
\* document once its expiresAt has passed.
TtlDelete(i) ==
  /\ payments[i] # NoDoc
  /\ payments[i].expiresAt <= now
  /\ payments' = [payments EXCEPT ![i] = NoDoc]
  /\ UNCHANGED <<served, now, reqs>>
  /\ LedgerFrame
  /\ ShopFrame

NextLedger ==
  \/ Tick
  \/ Wait
  \/ \E a \in LedgerAmounts, c \in LedgerCurrencies, m \in LedgerMethods,
        rnd \in RandomSuffixes : LedgerCreate(a, c, m, rnd)
  \/ \E r \in Slots, i \in Pids, call \in LedgerCalls : LedgerLoad(r, i, call)
  \/ \E r \in Slots : LedgerMarkCompleted(r)
  \/ \E r \in Slots : LedgerMarkFailed(r)
  \/ \E r \in Slots, st \in AttemptStatuses : LedgerAddAttempt(r, st)
  \/ \E i \in Pids : TtlDelete(i)

SpecLedger == Init /\ [][NextLedger]_vars

\* ------------------------------------------------------------ Order model
\* The Order model's callers leave the payment side alone.
PayFrame == UNCHANGED <<now, orders, payments, intents, reqs, last, applied>>

OrderFree(r) == oreqs[r].pc = "done"

\* A new call is served in the lowest free slot.
OrderAccepts(r) ==
  /\ OrderFree(r)
  /\ \A s \in Slots : s < r => ~OrderFree(s)
  /\ served < MaxRequests
  /\ served' = served + 1

\* An order handler goes on to its next call.
OrderRunning == sent' = 0 /\ asked' = NoRequest /\ UNCHANGED served

\* POST / up to order.save(): the item loop, the totals, new Order({...}).
\* items, subtotal, shippingCost and total are not paths of the Order schema,
\* and the constructor's argument has no seller, product, price or totalAmount.
CreateOrder(r, u, items) ==
  LET acc == ProcessItems(items, u, [code |-> 0, subtotal |-> 0])
      shippingCost == ShippingCost(acc.subtotal)
  IN
  /\ OrderAccepts(r)
  /\ asked' = [user |-> u, items |-> items]
  /\ IF acc.code # 0
       THEN /\ sent' = acc.code
            /\ UNCHANGED oreqs
       ELSE /\ sent' = 0
            /\ oreqs' = [oreqs EXCEPT ![r] =
                 [NoOrderReq EXCEPT !.kind = "create", !.pc = "number",
                    !.doc = NewOrder(u, Undefined),
                    !.subtotal = acc.subtotal, !.shippingCost = shippingCost,
                    !.total = acc.subtotal + shippingCost]]
  /\ UNCHANGED <<orderDocs, images, savedImages>>
  /\ PayFrame

\* new Order({...}) with the schema's required paths, up to its save().
OrderNew(r, u) ==
  /\ OrderAccepts(r)
  /\ oreqs' = [oreqs EXCEPT ![r] =
       [NoOrderReq EXCEPT !.kind = "new", !.pc = "number", !.doc = NewOrder(u, "other")]]
  /\ sent' = 0
  /\ asked' = NoRequest
  /\ UNCHANGED <<orderDocs, images, savedImages>>
  /\ PayFrame

\* pre('save') of a new document: the findOne for the day's last order and
\* the assignment of orderNumber.
OrderReadLast(r) ==
  /\ oreqs[r].pc = "number"
  /\ oreqs' = [oreqs EXCEPT ![r] =
       [@ EXCEPT !.pc = "insert", !.doc.orderNumber = NextSequence(orderDocs)]]
  /\ OrderRunning
  /\ UNCHANGED <<orderDocs, images, savedImages>>
  /\ PayFrame

\* save() of a new document: validation and the insert under the unique index.
\* An error reaches the caller (the route answers 500).
OrderInsert(r) ==
  LET d == oreqs[r].doc IN
  /\ oreqs[r].pc = "insert"
  /\ IF ~ValidOrderDoc(d) \/ DuplicateOrderNumber(orderDocs, d)
       THEN /\ sent' = 500
            /\ UNCHANGED orderDocs
       ELSE /\ sent' = 201
            /\ orderDocs' = Append(orderDocs, d)
  /\ oreqs' = [oreqs EXCEPT ![r] = NoOrderReq]
  /\ asked' = NoRequest
  /\ UNCHANGED <<served, images, savedImages>>
  /\ PayFrame

\* Order.findById, then either order.status = st or order.updateStatus(st) up
\* to its this.save().
OrderLoad(r, i, call, st) ==
  LET rec == [NoOrderReq EXCEPT !.kind = call, !.pc = "save", !.id = i] IN
  /\ OrderAccepts(r)
  /\ i \in DOMAIN orderDocs
  /\ oreqs' = [oreqs EXCEPT ![r] =
       IF call = "updateStatus" THEN UpdateStatus(rec, orderDocs[i], st)
                                ELSE AssignStatus(rec, orderDocs[i], st)]
  /\ sent' = 0
  /\ asked' = NoRequest
  /\ UNCHANGED <<orderDocs, images, savedImages>>
  /\ PayFrame

\* save() of an existing document: the pre('save') hook, then the write.
OrderSave(r) ==
  LET rec == TimelineHook(oreqs[r]) IN
  /\ oreqs[r].pc = "save"
  /\ orderDocs' = [orderDocs EXCEPT ![rec.id] = SavedOrderDoc(@, rec)]
  /\ oreqs' = [oreqs EXCEPT ![r] = NoOrderReq]
  /\ sent' = 200
  /\ asked' = NoRequest
  /\ UNCHANGED <<served, images, savedImages>>
  /\ PayFrame

\* The admin route on a document of the Order model: findByIdAndUpdate sets
\* status without running the save hooks.
OrderAdminUpdate(i, st) ==
  /\ served < MaxRequests
  /\ served' = served + 1
  /\ i \in DOMAIN orderDocs
  /\ orderDocs' = [orderDocs EXCEPT ![i].status = st]
  /\ sent' = 200
  /\ asked' = NoRequest
  /\ UNCHANGED <<oreqs, images, savedImages>>
  /\ PayFrame

NextOrders ==
  \/ \E r \in Slots, u \in Users, items \in ItemLists : CreateOrder(r, u, items)
  \/ \E r \in Slots, u \in Users : OrderNew(r, u)
  \/ \E r \in Slots : OrderReadLast(r)
  \/ \E r \in Slots : OrderInsert(r)
  \/ \E r \in Slots, i \in 1..MaxRequests, call \in OrderCalls, st \in StatusInputs :
       OrderLoad(r, i, call, st)
  \/ \E r \in Slots : OrderSave(r)
  \/ \E i \in 1..MaxRequests, st \in StatusInputs : OrderAdminUpdate(i, st)

SpecOrders == Init /\ [][NextOrders]_vars

\* ---------------------------------------------------------- Product model
\* product.images = imgs
SetImages(imgs) ==
  /\ images' = imgs
  /\ UNCHANGED <<savedImages, orderDocs, oreqs, asked, served, sent>>
  /\ PayFrame

\* product.save(): the hook changes the document in memory, which is written.
SaveProduct ==
  /\ images' = PrimaryHook(images)
  /\ savedImages' = PrimaryHook(images)
  /\ UNCHANGED <<orderDocs, oreqs, asked, served, sent>>
  /\ PayFrame

NextProduct ==
  \/ \E imgs \in ImageLists : SetImages(imgs)
  \/ SaveProduct

SpecProduct == Init /\ [][NextProduct]_vars

\* ------------------------------------------------------------------ claims
\* The handler in slot r returns in this step, after at least one await.
Finishing(r) == reqs[r].pc # "done" /\ reqs'[r].pc = "done"

\* The stored status a terminal observation stands for.
StatusOf(tag) == IF tag = "poll_succeeded" THEN "completed" ELSE "failed"

\* C1: when a poll that observed success and an Orange Money webhook that
\* reported failure have both been applied to a Payment, in either order, the
\* stored status is the one of the observation that was applied first.
C1_FirstTerminalWins ==
  [][\A r \in Slots :
       LET rec == reqs[r] IN
         ( /\ Finishing(r)
           /\ rec.pid # 0
           /\ payments[rec.pid].method = "orange_money"
           /\ \A s \in Slots \ {r} : Free(s)
           /\ ObservationTag(rec) \in {"poll_succeeded", "webhook_failed"}
           /\ applied[rec.pid] \in {"poll_succeeded", "webhook_failed"}
           /\ applied[rec.pid] # ObservationTag(rec) )
         => payments'[rec.pid].status = StatusOf(applied[rec.pid])]_vars

\* C2: a Payment whose stored status is failed is never changed to completed.
C2_FailedNeverCompleted ==
  [][\A i \in Pids :
       payments[i].status = "failed" => payments'[i].status # "completed"]_vars

\* C3: a terminal stored status (completed, failed, cancelled, refunded) never
\* changes, except completed to refunded; in particular a failure observation
\* leaves a completed Payment completed.
C3_TerminalIsFinal ==
  [][\A i \in Pids :
       payments[i].status \in TerminalStatuses
         => \/ payments'[i].status = payments[i].status
            \/ payments[i].status = "completed" /\ payments'[i].status = "refunded"]_vars

\* C4: markCompleted on an already-completed Payment leaves the status
\* completed and completedAt at the value the first call set.
C4_CompletedAtKept ==
  [][\A i \in Pids :
       payments[i].status = "completed" /\ payments'[i].status = "completed"
         => payments'[i].completedAt = payments[i].completedAt]_vars

\* C5: the order update of a completion, on an Order whose status is shipped,
\* stores paymentStatus paid and leaves the status shipped.
C5_ShippedOrderPaid ==
  [][\A r \in Slots :
       LET o == reqs[r].doc.order IN
         ( /\ reqs[r].pc = "save_order"
           /\ reqs'[r].pc # "save_order"
           /\ orders[o].status = "shipped" )
         => orders'[o].paymentStatus = "paid" /\ orders'[o].status = "shipped"]_vars

\* C6: when the Orange Money webhook with status SUCCESS has been handled for
\* a Payment that an Orange Money initiation left processing, the stored
\* Payment is completed and the stored Order's paymentStatus is paid.
C6_EndToEnd ==
  [][\A r \in Slots :
       LET rec == reqs[r] IN
         ( /\ Finishing(r)
           /\ rec.kind = "om_webhook"
           /\ rec.obs = "SUCCESS"
           /\ rec.was = "processing"
           /\ payments[rec.pid].method = "orange_money" )
         => /\ payments'[rec.pid].status = "completed"
            /\ orders'[rec.doc.order].paymentStatus = "paid"]_vars

C8_PollSuccessCompletes ==
  [][\A r \in Slots :
       LET rec == reqs[r] IN
         ( /\ Finishing(r)
           /\ rec.kind = "poll"
           /\ IsCompleted(rec.obs)
           /\ rec.was # "completed" )
         => payments'[rec.pid].status = "completed"]_vars

\* An Order counts as paid once its paymentStatus is paid or a Payment for it
\* is stored as completed.
OrderPaid(o) ==
  \/ orders[o].paymentStatus = "paid"
  \/ \E i \in Pids : payments[i].order = o /\ payments[i].status = "completed"

\* C9: no initiation request for an Order that is already paid gets past the
\* route's checks to create a Payment or call the gateway.
C9_NoAttemptOnPaidOrder ==
  [][\A r \in Slots :
       Free(r) /\ reqs'[r].pc \in {"intent", "save_new"}
         => ~OrderPaid(reqs'[r].doc.order)]_vars

\* C10: when the gateway's initiation call fails, the handler returns with the
\* Payment it created stored as failed and the orders as they were.
C10_InitiationFailureFails ==
  [][\A r \in Slots :
       reqs[r].pc = "gw_init" /\ Finishing(r)
         => payments'[reqs[r].pid].status = "failed" /\ orders' = orders]_vars

\* The failure statuses a provider reports.
FailureReports == {"FAILED", "payment_intent.payment_failed"}

\* C11: a poll whose gateway call throws leaves every stored Payment and Order
\* as it was, and a stored status becomes failed only in the save of a handler
\* that carries a failure status reported by the provider.
C11_TransportErrorNoChange ==
  [][/\ \A r \in Slots :
          reqs[r].kind = "poll" /\ reqs[r].pc = "gw_status" /\ Finishing(r) /\ sent' = 500
            => payments' = payments /\ orders' = orders
     /\ \A i \in Pids :
          payments[i].status # "failed" /\ payments'[i].status = "failed"
            => \E r \in Slots : /\ reqs[r].pid = i
                                 /\ reqs[r].pc = "save_doc"
                                 /\ Finishing(r)
                                 /\ reqs[r].obs \in FailureReports]_vars

\* A poll of a processing Payment has just been answered 500 without any
\* gateway status.
C11_Witness ==
  /\ last.kind = "poll"
  /\ last.obs = "none"
  /\ sent = 500
  /\ last.pid # 0
  /\ payments[last.pid].status = "processing"

\* C12: a poll that starts right after a poll of the same Payment was
\* answered, and gets the same gateway status, leaves the Payment's status,
\* completedAt and attempts and the Order's paymentStatus and status as the
\* first poll left them.
C12_PollIdempotent ==
  [][\A r \in Slots :
       LET rec == reqs[r] IN
         ( /\ reqs'[r] # rec
           /\ rec.kind = "poll"
           /\ rec.obs # "none"
           /\ rec.after = rec.obs )
         => /\ payments'[rec.pid].status = payments[rec.pid].status
            /\ payments'[rec.pid].completedAt = payments[rec.pid].completedAt
            /\ payments'[rec.pid].attempts = payments[rec.pid].attempts
            /\ orders'[rec.doc.order] = orders[rec.doc.order]]_vars

\* A second poll that got the same success status as the poll before it has
\* been answered.
C12_Witness ==
  /\ last.kind = "poll"
  /\ last.pid # 0
  /\ IsCompleted(last.obs)
  /\ last.after = last.obs

\* C13: a poll that is answered after the gateway reported failure, for a
\* Payment it read as not failed, leaves the stored Payment failed, with
\* failedAt set and one more attempt in the log.
C13_PollFailureMarksFailed ==
  [][( /\ last'.kind = "poll"
       /\ last'.pid # 0
       /\ last'.obs \in FailureReports
       /\ \E r \in Slots : Finishing(r) /\ reqs[r].was # "failed" )
     => /\ payments'[last'.pid].status = "failed"
        /\ payments'[last'.pid].failedAt # NoTime
        /\ Len(payments'[last'.pid].attempts) = Len(payments[last'.pid].attempts) + 1]_vars

\* C14: a webhook, Orange Money or Stripe, whose reference or payment intent
\* id matches no stored Payment is answered 200 and changes no Payment and no
\* Order.
C14_UnknownReferenceIsSuccess ==
  [][( /\ last'.kind \in {"om_webhook", "stripe_webhook"}
       /\ last'.sig
       /\ last'.pid = 0 )
     => sent' = 200 /\ payments' = payments /\ orders' = orders]_vars

\* C15: a Stripe webhook request whose signature does not verify is answered
\* 400 at once, changes no Payment and no Order, and never gets to run the
\* event handling, whatever event type and payment intent id it carries.
C15_BadSignatureRejected ==
  [][/\ (last'.kind = "stripe_webhook" /\ ~last'.sig)
          => sent' = 400 /\ payments' = payments /\ orders' = orders
     /\ \A r \in Slots : reqs'[r].kind = "stripe_webhook" => reqs'[r].sig]_vars

\* A request with a bad signature that names the succeeded event and the
\* payment intent of a stored, pending Payment has been answered.
C15_Witness ==
  /\ last.kind = "stripe_webhook"
  /\ ~last.sig
  /\ last.obs = "payment_intent.succeeded"
  /\ sent = 400
  /\ \E i \in Pids : payments[i].paymentIntentId # NoIntent /\ payments[i].status = "pending"

\* C16: whenever a payment flow has issued the save that sets an Order's
\* paymentStatus to paid, the stored Payment of that flow is completed; and an
\* Order stored with paymentStatus paid has a stored completed Payment.
C16_OrderAfterPayment ==
  /\ \A r \in Slots :
        reqs[r].pc = "save_order" /\ reqs[r].odoc.paymentStatus = "paid"
          => payments[reqs[r].pid].status = "completed"
  /\ \A o \in OrderIds :
        orders[o].paymentStatus = "paid"
          => \E i \in Pids : payments[i].order = o /\ payments[i].status = "completed"

\* C17: the step in which a stored Payment becomes failed leaves every Order
\* as it was, and a webhook that carries a failure (Orange Money FAILED, Stripe
\* payment_intent.payment_failed) changes no Order in any of its steps and
\* returns right after the Payment's save, without an order operation.
C17_FailedLeavesOrder ==
  [][/\ \A i \in Pids :
          payments[i].status # "failed" /\ payments'[i].status = "failed"
            => orders' = orders
     /\ \A r \in Slots :
          LET a == reqs[r]
              b == reqs'[r]
          IN  ( /\ a # b
                /\ \/ a.kind \in {"om_webhook", "stripe_webhook"} /\ a.obs \in FailureReports
                   \/ b.kind \in {"om_webhook", "stripe_webhook"} /\ b.obs \in FailureReports )
              => /\ orders' = orders
                 /\ a.pc = "save_doc" => Finishing(r)]_vars

\* A failure webhook has been answered for a Payment now stored as failed,
\* whose Order had been set to shipped.
C17_Witness ==
  /\ last.kind \in {"om_webhook", "stripe_webhook"}
  /\ last.obs \in FailureReports
  /\ last.pid # 0
  /\ sent = 200
  /\ payments[last.pid].status = "failed"
  /\ orders[payments[last.pid].order].status = "shipped"
  /\ orders[payments[last.pid].order].paymentStatus = "pending"

\* C18: when an initiation request (Orange Money, MTN Money or Stripe) is
\* answered 200, its stored Payment has status processing and holds the
\* transaction id, or payment intent id, the gateway returned.
C18_InitiationProcessing ==
  [][\A r \in Slots :
       ( /\ Finishing(r)
         /\ reqs[r].kind \in {"orange_init", "mtn_init", "stripe_init"}
         /\ sent' = 200 )
       => LET p == payments'[last'.pid] IN
            /\ p.status = "processing"
            /\ p.transactionId # "" \/ p.paymentIntentId # NoIntent]_vars

\* C19: in every state, a stored Payment's completedAt is set if and only if
\* its status is completed.
C19_CompletedAtIffCompleted ==
  \A i \in Pids : payments[i].completedAt # NoTime <=> payments[i].status = "completed"

IsPrefix(a, b) == Len(a) <= Len(b) /\ SubSeq(b, 1, Len(a)) = a

\* C21: every step that leaves a Payment stored leaves its previous attempts
\* log as a prefix of the new one, and the save of addAttempt appends exactly
\* one entry and leaves the stored status as it is, whatever that status is.
C21_AppendOnly ==
  [][/\ \A i \in Pids :
          payments'[i] # NoDoc => IsPrefix(payments[i].attempts, payments'[i].attempts)
     /\ \A r \in Slots :
          LET i == reqs[r].pid IN
            ( /\ reqs[r].pc = "loaded" /\ reqs[r].obs = "addAttempt"
              /\ reqs'[r].pc = "done"
              /\ payments[i] # NoDoc )
            => /\ Len(payments'[i].attempts) = Len(payments[i].attempts) + 1
               /\ payments'[i].attempts[Len(payments'[i].attempts)] \in AttemptStatuses
               /\ payments'[i].status = payments[i].status]_vars

\* addAttempt has appended to the log of a completed Payment that already held
\* a failed attempt.
C21_Witness ==
  \E i \in Pids :
    /\ payments[i].status = "completed"
    /\ payments[i].attempts = <<"failed", "processing">>

\* C22: a stored Payment whose status is completed, failed, cancelled or
\* refunded is never removed from the collection.
C22_TerminalNeverDeleted ==
  [][\A i \in Pids :
       payments[i] # NoDoc /\ payments[i].status \in TerminalStatuses
         => payments'[i] # NoDoc]_vars

\* C23: a request whose Payment has a negative amount, or a currency or method
\* outside the enumerated sets, stores no Payment and makes no gateway call:
\* no Payment that fails the validators is stored, and no handler calls a
\* gateway for such a Payment.
C23_InvalidPaymentNoEffect ==
  [][/\ Len(payments') > Len(payments) => ValidPayment(payments'[Len(payments')])
     /\ \A r \in Slots :
          /\ reqs[r].pc = "gw_init" /\ reqs'[r] # reqs[r]
               => ValidPayment(payments[reqs[r].pid])
          /\ reqs[r].pc = "intent" /\ reqs'[r] # reqs[r]
               => ValidPayment(reqs[r].doc)]_vars

\* C24: a status request by a user who is not the Payment's payer is answered
\* 404 in its first step, without a gateway call, and changes no Payment and no
\* Order; and every poll that gets as far as the gateway is the payer's own.
C24_OnlyPayerPolls ==
  [][/\ ( /\ last'.kind = "poll"
          /\ last'.pid # 0
          /\ last'.user # payments[last'.pid].user )
        => /\ sent' = 404
           /\ served' = served + 1
           /\ payments' = payments /\ orders' = orders /\ intents' = intents
     /\ \A r \in Slots :
          reqs'[r].kind = "poll" => reqs'[r].user = payments'[reqs'[r].pid].user]_vars

\* A user other than the payer has asked for the status of a processing
\* Payment and has been answered.
C24_Witness ==
  /\ last.kind = "poll"
  /\ last.pid # 0
  /\ last.user # payments[last.pid].user
  /\ sent = 404
  /\ payments[last.pid].status = "processing"

\* The routes that handle a payment completion.
CompletionKinds == {"poll", "om_webhook", "stripe_webhook"}

\* C25: once an Order is cancelled, no step of a status poll or of a webhook
\* moves its status away from cancelled.
C25_CancelledStays ==
  [][\A r \in Slots, o \in OrderIds :
       /\ reqs[r].kind \in CompletionKinds
       /\ reqs'[r] # reqs[r]
       /\ orders[o].status = "cancelled"
       => orders'[o].status = "cancelled"]_vars

\* A webhook has completed the Payment of a cancelled Order and has run its
\* order update; the Order is still cancelled.
C25_Witness ==
  /\ last.kind = "om_webhook"
  /\ last.pid # 0
  /\ last.obs = "SUCCESS"
  /\ sent = 500
  /\ payments[last.pid].status = "completed"
  /\ orders[payments[last.pid].order].status = "cancelled"

\* C26: a cancellation is answered 200 only to the Order's buyer and only for
\* an Order whose stored status is then neither shipped nor delivered; a
\* rejected cancellation changes no Order.  (cancelledAt and cancellationReason
\* are not paths of the Order schema and are never stored.)
C26_CancelOnlyWhileOpen ==
  [][/\ \A r \in Slots :
          /\ reqs[r].kind = "cancel"
          /\ reqs'[r] # reqs[r]
          /\ sent' = 200
          => /\ OrderBuyer[reqs[r].doc.order] = reqs[r].user
             /\ orders[reqs[r].doc.order].status \notin NotCancellable
     /\ ( last'.kind = "cancel" /\ sent' \in {400, 403, 404} ) => orders' = orders]_vars

\* The first flagged image of a list, 0 when none is flagged.
FirstFlagged(imgs) ==
  IF PrimaryCount(imgs) = 0 THEN 0
  ELSE CHOOSE k \in DOMAIN imgs : imgs[k] /\ \A j \in 1..(k - 1) : ~imgs[j]

\* C27: a save of a Product with a non-empty images list stores the same
\* number of images with exactly one primary image: the first one that was
\* flagged, or the first image when none was flagged.
C27_OnePrimary ==
  [][( savedImages' # savedImages /\ Len(images) > 0 )
       => /\ Len(savedImages') = Len(images)
          /\ PrimaryCount(savedImages') = 1
          /\ savedImages'[IF FirstFlagged(images) = 0 THEN 1 ELSE FirstFlagged(images)]]_vars

\* A Product with the most images has been saved and its primary image is the
\* second one: the first was not flagged.
C27_Witness ==
  /\ images = savedImages
  /\ Len(savedImages) = MaxImages
  /\ PrimaryCount(savedImages) = 1
  /\ savedImages[2]

\* C28: a save of an existing Order that changes the stored status appends
\* exactly one timeline entry, carrying the new status, whether the status was
\* assigned or set through updateStatus.
C28_OneTimelineEntry ==
  [][\A r \in Slots :
       /\ oreqs[r].pc = "save"
       /\ oreqs'[r] # oreqs[r]
       /\ orderDocs'[oreqs[r].id].status # orderDocs[oreqs[r].id].status
       => orderDocs'[oreqs[r].id].timeline =
            Append(orderDocs[oreqs[r].id].timeline, orderDocs'[oreqs[r].id].status)]_vars

\* C29: every save of a new, valid Order stores it, and the stored Orders have
\* pairwise distinct order numbers.
C29_DistinctNumbers ==
  [][\A r \in Slots :
       /\ oreqs[r].kind = "new"
       /\ oreqs[r].pc = "insert"
       /\ oreqs'[r] # oreqs[r]
       => /\ orderDocs' = Append(orderDocs, oreqs[r].doc)
          /\ \A i, j \in DOMAIN orderDocs' :
               orderDocs'[i].orderNumber = orderDocs'[j].orderNumber => i = j]_vars

\* An item the route has no stated reason to refuse: the Product exists, is in
\* stock and is sold by someone else.
ItemAvailable(item, u) ==
  /\ item.product \in Products
  /\ Catalog[item.product].availability = "in-stock"
  /\ Catalog[item.product].seller # u

\* The sum of price times quantity over the items.
RECURSIVE SubtotalOf(_)
SubtotalOf(items) ==
  IF items = <<>> THEN 0
  ELSE Catalog[Head(items).product].price * Head(items).quantity + SubtotalOf(Tail(items))

\* C30: an order request whose items are all available goes on to the save
\* with subtotal the sum of price times quantity, shippingCost 0 from 50000 and
\* 5000 below, and total their sum; a request with an item that is missing, out
\* of stock or the requester's own is rejected and stores nothing.
C30_TotalsAndRejection ==
  [][asked'.items # <<>> =>
       IF \A k \in DOMAIN asked'.items : ItemAvailable(asked'.items[k], asked'.user)
         THEN \E r \in Slots :
                /\ oreqs'[r].kind = "create"
                /\ oreqs'[r].subtotal = SubtotalOf(asked'.items)
                /\ oreqs'[r].shippingCost =
                     (IF SubtotalOf(asked'.items) >= 50000 THEN 0 ELSE 5000)
                /\ oreqs'[r].total = oreqs'[r].subtotal + oreqs'[r].shippingCost
         ELSE /\ sent' \in {400, 404}
              /\ orderDocs' = orderDocs
              /\ oreqs' = oreqs]_vars

====
